---- MODULE Spec2Model ----
(***************************************************************************)
(* jc 1.8.0: the command line driver (src/jc/cli.py) and the jobs parser   *)
(* (src/jc/parsers/jobs.py).                                               *)
(*                                                                         *)
(* Python str values are TLA+ strings, read with Len, SubSeq and \o.       *)
(* Python None / a present value is the empty / one-element sequence.      *)
(* A dict is the sequence of its <<key, value>> pairs in insertion order.  *)
(***************************************************************************)
EXTENDS Integers, Sequences, FiniteSets, TLC

VARIABLES argv, tty, pc, data, stdin_read, called, result, stdout, stderr,
          shell, status, cleandata, idx, output, last

vars == <<argv, tty, pc, data, stdin_read, called, result, stdout, stderr,
          shell, status, cleandata, idx, output, last>>

\* Bounds of the checked inputs.
MaxArgs == 3
MaxLines == 2

None == <<>>
Some(x) == <<x>>

-----------------------------------------------------------------------------
(* Python str operations, as CPython computes them.                        *)

\* str.isspace() for the characters the inputs are written in
IsSpace(c) == c \in {" ", "\t", "\n", "\r", "\f"}

\* string.digits
digits == "0123456789"

\* s[i], 0-based
CharAt(s, i) == SubSeq(s, i + 1, i + 1)

\* s[m:n]
Slice(s, m, n) ==
    LET e == IF n > Len(s) THEN Len(s) ELSE n
    IN  IF m >= e THEN "" ELSE SubSeq(s, m + 1, e)

\* s[n:]
SliceFrom(s, n) == Slice(s, n, Len(s))

RECURSIVE find_from(_, _, _)
find_from(s, c, i) ==
    IF i >= Len(s) THEN -1
    ELSE IF CharAt(s, i) = c THEN i
    ELSE find_from(s, c, i + 1)

\* s.find(c) for a one-character c: the index of its first occurrence, or -1
find(s, c) == find_from(s, c, 0)

\* s.startswith(p)
startswith(s, p) == Len(s) >= Len(p) /\ Slice(s, 0, Len(p)) = p

RECURSIVE lstrip_from(_, _, _)
lstrip_from(s, c, i) ==
    IF i < Len(s) /\ CharAt(s, i) = c THEN lstrip_from(s, c, i + 1) ELSE i

\* s.lstrip(c) for a one-character c
lstrip(s, c) == SliceFrom(s, lstrip_from(s, c, 0))

RECURSIVE rstrip_to(_, _, _)
rstrip_to(s, c, n) ==
    IF n > 0 /\ CharAt(s, n - 1) = c THEN rstrip_to(s, c, n - 1) ELSE n

\* s.rstrip(c) for a one-character c
rstrip(s, c) == Slice(s, 0, rstrip_to(s, c, Len(s)))

RECURSIVE replace(_, _, _)
\* s.replace(old, new), old not empty
replace(s, old, new) ==
    IF Len(s) < Len(old) THEN s
    ELSE IF Slice(s, 0, Len(old)) = old
         THEN new \o replace(SliceFrom(s, Len(old)), old, new)
         ELSE CharAt(s, 0) \o replace(SliceFrom(s, 1), old, new)

RECURSIVE SkipSpace(_, _)
\* split_whitespace: "while (i < len && ISSPACE(str[i])) i++"
SkipSpace(s, i) ==
    IF i < Len(s) /\ IsSpace(CharAt(s, i)) THEN SkipSpace(s, i + 1) ELSE i

RECURSIVE SkipWord(_, _)
\* split_whitespace: "while (i < len && !ISSPACE(str[i])) i++"
SkipWord(s, i) ==
    IF i < Len(s) /\ ~IsSpace(CharAt(s, i)) THEN SkipWord(s, i + 1) ELSE i

RECURSIVE split_from(_, _, _)
split_from(s, i, maxcount) ==
    LET j == SkipSpace(s, i)
    IN  IF j = Len(s) THEN <<>>
        ELSE IF maxcount = 0 THEN <<SliceFrom(s, j)>>
        ELSE LET k == SkipWord(s, j)
             IN  <<Slice(s, j, k)>> \o split_from(s, k, maxcount - 1)

\* s.split(maxsplit=maxsplit), maxsplit = -1 for s.split(): whitespace
\* separated words; after maxsplit words the rest of the string is one more
\* field, its leading whitespace skipped and its trailing whitespace kept
split(s, maxsplit) == split_from(s, 0, maxsplit)

RECURSIVE join(_, _)
\* sep.join(words)
join(sep, words) ==
    IF words = <<>> THEN ""
    ELSE IF Len(words) = 1 THEN words[1]
    ELSE words[1] \o sep \o join(sep, Tail(words))

RECURSIVE LineEnd(_, _)
\* the index of the first line boundary of s at or after i
LineEnd(s, i) ==
    IF i < Len(s) /\ CharAt(s, i) \notin {"\n", "\r"} THEN LineEnd(s, i + 1) ELSE i

RECURSIVE splitlines_from(_, _)
splitlines_from(s, i) ==
    IF i >= Len(s) THEN <<>>
    ELSE LET j == LineEnd(s, i)
             eol == IF Slice(s, j, j + 2) = "\r\n" THEN j + 2 ELSE j + 1
         IN  <<Slice(s, i, j)>> \o splitlines_from(s, eol)

\* s.splitlines(): lines without their boundaries "\n", "\r" or "\r\n"; no
\* empty last line after a final boundary
splitlines(s) == splitlines_from(s, 0)

\* the characters of s are all decimal digits, and there is one
AllDigits(s) == s # "" /\ \A i \in 0..(Len(s) - 1) : find(digits, CharAt(s, i)) # -1

RECURSIVE DecimalValue(_, _)
\* the value of the decimal digits s[:n]
DecimalValue(s, n) ==
    IF n = 0 THEN 0
    ELSE 10 * DecimalValue(s, n - 1) + find(digits, CharAt(s, n - 1))

\* int(s) succeeds: an optional sign and decimal digits
IsIntLiteral(s) ==
    IF s # "" /\ CharAt(s, 0) \in {"+", "-"} THEN AllDigits(SliceFrom(s, 1))
    ELSE AllDigits(s)

\* int(s), for s with IsIntLiteral(s)
int(s) ==
    IF CharAt(s, 0) = "-" THEN 0 - DecimalValue(SliceFrom(s, 1), Len(s) - 1)
    ELSE IF CharAt(s, 0) = "+" THEN DecimalValue(SliceFrom(s, 1), Len(s) - 1)
    ELSE DecimalValue(s, Len(s))

-----------------------------------------------------------------------------
(* cli.py: the registry and the name helpers                               *)

\* map of parser real-name -> matching command name for magic syntax
parsers == <<
    <<"arp", Some("arp")>>,
    <<"crontab", Some("crontab")>>,
    <<"crontab-u", None>>,
    <<"df", Some("df")>>,
    <<"dig", Some("dig")>>,
    <<"du", Some("du")>>,
    <<"env", Some("env")>>,
    <<"free", Some("free")>>,
    <<"fstab", None>>,
    <<"history", Some("history")>>,
    <<"hosts", None>>,
    <<"id", Some("id")>>,
    <<"ifconfig", Some("ifconfig")>>,
    <<"ini", None>>,
    <<"iptables", Some("iptables")>>,
    <<"jobs", Some("jobs")>>,
    <<"ls", Some("ls")>>,
    <<"lsblk", Some("lsblk")>>,
    <<"lsmod", Some("lsmod")>>,
    <<"lsof", Some("lsof")>>,
    <<"mount", Some("mount")>>,
    <<"netstat", Some("netstat")>>,
    <<"pip-list", Some("pip3 list")>>,
    <<"pip-show", Some("pip3 show")>>,
    <<"ps", Some("ps")>>,
    <<"route", Some("route")>>,
    <<"ss", Some("ss")>>,
    <<"stat", Some("stat")>>,
    <<"systemctl", Some("systemctl")>>,
    <<"systemctl-lj", Some("systemctl list-jobs")>>,
    <<"systemctl-ls", Some("systemctl list-sockets")>>,
    <<"systemctl-luf", Some("systemctl list-unit-files")>>,
    <<"uname", Some("uname -a")>>,
    <<"uptime", Some("uptime")>>,
    <<"w", Some("w")>>,
    <<"xml", None>>,
    <<"yaml", None>> >>

\* parsers.keys()
parser_keys == {parsers[i][1] : i \in 1..Len(parsers)}

\* short name of the parser with dashes and no -- prefix
parser_shortname(parser_arg) == SliceFrom(parser_arg, 2)

\* short name of the parser with dashes and with -- prefix; str(None) is
\* "None"
parser_argument(parser) == "--" \o (IF parser = None THEN "None" ELSE parser[1])

\* short name of the parser's module name
parser_mod_shortname(parser) == replace(replace(parser, "--", ""), "-", "_")

\* the modules of the package jc.parsers: parsers_text and about_jc load one
\* for every key of the registry
parser_modules == {parser_mod_shortname(k) : k \in parser_keys}

\* importlib.import_module('jc.parsers.' + name) finds the module
parser_module(parser) == parser_mod_shortname(parser) \in parser_modules

-----------------------------------------------------------------------------
(* cli.py: magic()                                                         *)

\* the magic syntax is used
is_magic(av) == Len(av) > 1 /\ ~startswith(av[2], "-")

\* commands = {v: k for k, v in parsers.items() if v is not None}, as
\* <<command, parser>> pairs
\* Variant: the "if v is not None" filter is lost and a parser without a
\* command is listed under its own name.
commands_unfiltered ==
    [i \in 1..Len(parsers) |->
        <<IF parsers[i][2] = None THEN parsers[i][1] ELSE parsers[i][2][1],
          parsers[i][1]>>]

commands ==
    LET kept == SelectSeq(parsers, LAMBDA p : p[2] # None)
    IN  [i \in 1..Len(kept) |-> <<kept[i][2][1], kept[i][1]>>]

\* comm.split() of every command
command_words == [i \in 1..Len(commands) |-> split(commands[i][1], -1)]

\* the options list: the commands whose first word is the first argument
options(args_given) ==
    LET hits == SelectSeq([i \in 1..Len(commands) |-> i],
                          LAMBDA i : args_given[1] = command_words[i][1])
    IN  [n \in 1..Len(hits) |-> commands[hits[n]]]

RECURSIVE second_word_loop(_, _, _, _)
\* for comm2, pars2 in options: if args_given[1] == comm2.split()[1]: ...
\* Either index raises IndexError; the loop has no break.
second_word_loop(opts, args_given, i, found_parser) ==
    IF i > Len(opts) THEN [exc |-> "", found_parser |-> found_parser]
    ELSE IF Len(args_given) < 2 \/ Len(split(opts[i][1], -1)) < 2
         THEN [exc |-> "IndexError", found_parser |-> None]
         ELSE second_word_loop(opts, args_given, i + 1,
                  IF args_given[2] = split(opts[i][1], -1)[2]
                  THEN Some(opts[i][2]) ELSE found_parser)

first_option(opts) == Some(opts[1][2])

\* Variant: with no option the first command of the registry is taken
\* instead of None.
find_parser_default(args_given) ==
    LET opts == options(args_given)
    IN  IF Len(opts) > 1 THEN second_word_loop(opts, args_given, 1, None)
        ELSE IF Len(opts) = 0
             THEN [exc |-> "", found_parser |-> Some(commands[1][2])]
             ELSE [exc |-> "", found_parser |-> first_option(opts)]

\* the parser found for the arguments, or the exception raised on the way
find_parser(args_given) ==
    LET opts == options(args_given)
    IN  IF Len(opts) > 1 THEN second_word_loop(opts, args_given, 1, None)
        ELSE IF Len(opts) = 0
             THEN [exc |-> "", found_parser |-> None]
             ELSE [exc |-> "", found_parser |-> first_option(opts)]

\* ' '.join([run_command, '|', 'jc', parser_argument(found_parser), '-p'])
whole_command(av, found_parser) ==
    join(" ", <<join(" ", Tail(av)), "|", "jc",
                parser_argument(found_parser), "-p">>)

\* helptext(f'parser not found for "{args_given_pretty}"')
not_found_message(av) == "parser not found for \"" \o join(" ", Tail(av)) \o "\""

NoOut == [kind |-> "none", text |-> "", value |-> <<>>]
Usage(message) == [kind |-> "usage", text |-> message, value |-> <<>>]
Traceback(exc) == [kind |-> "traceback", text |-> exc, value |-> <<>>]

-----------------------------------------------------------------------------
(* parsers/jobs.py: parse(data)                                            *)

Raise(exc, long) == [ok |-> FALSE, exc |-> exc, long |-> long, record |-> <<>>]
Parsed(record, long) == [ok |-> TRUE, exc |-> "", long |-> long, record |-> record]

\* "check if -l was used": parsed_line[1][0] in string.digits
is_long(parsed_line) == find(digits, CharAt(parsed_line[2], 0)) # -1

\* Variant: history is stored before pid.
output_line_history_first(job_number, pid, job_history, status_field, command) ==
    << <<"job_number", int(job_number)>> >>
    \o (IF job_history # "" THEN << <<"history", job_history>> >> ELSE <<>>)
    \o (IF pid # "" THEN << <<"pid", int(pid)>> >> ELSE <<>>)
    \o << <<"status", status_field>>, <<"command", command>> >>

\* "create list of dictionaries": the keys of output_line in insertion order
output_line(job_number, pid, job_history, status_field, command) ==
    << <<"job_number", int(job_number)>> >>
    \o (IF pid # "" THEN << <<"pid", int(pid)>> >> ELSE <<>>)
    \o (IF job_history # "" THEN << <<"history", job_history>> >> ELSE <<>>)
    \o << <<"status", status_field>>, <<"command", command>> >>

\* "check for + or - in first field" and "clean up first field": the
\* history and the job number text of the first field
first_field(field) ==
    LET plus == find(field, "+") # -1
        f1 == IF plus THEN rstrip(field, "+") ELSE field
        minus == find(f1, "-") # -1
        f2 == IF minus THEN rstrip(f1, "-") ELSE f1
    IN  [job_history |-> IF minus THEN "previous"
                         ELSE IF plus THEN "current" ELSE "",
         job_number |-> rstrip(lstrip(f2, "["), "]")]

\* one iteration of "for entry in cleandata": the record appended to output,
\* or the exception an index or int() raises
parse_entry(entry) ==
    LET split_line == split(entry, 2)
    IN  IF Len(split_line) < 2 THEN Raise("IndexError", FALSE)
        ELSE
        LET long == is_long(split_line)
        IN  IF long /\ Len(split_line) < 3 THEN Raise("IndexError", long)
            ELSE
            LET pid == IF long THEN split_line[2] ELSE ""
                parsed_line == IF long
                               THEN <<split_line[1]>> \o split(split_line[3], 1)
                               ELSE split_line
                first == first_field(parsed_line[1])
            IN  IF ~IsIntLiteral(first.job_number) THEN Raise("ValueError", long)
                ELSE IF pid # "" /\ ~IsIntLiteral(pid) THEN Raise("ValueError", long)
                ELSE IF Len(parsed_line) < 3 THEN Raise("IndexError", long)
                ELSE Parsed(output_line(first.job_number, pid, first.job_history,
                                        parsed_line[2], parsed_line[3]), long)

\* cleandata = list(filter(None, data.splitlines()))
clean_lines(text) == SelectSeq(splitlines(text), LAMBDA line : line # "")

RECURSIVE parse_entries_partial(_, _)
\* Variant: a line that raises ends the loop and the records so far are
\* returned.
parse_entries_partial(entries, out) ==
    IF entries = <<>> THEN [ok |-> TRUE, exc |-> "", output |-> out]
    ELSE LET r == parse_entry(Head(entries))
         IN  IF r.ok THEN parse_entries_partial(Tail(entries), Append(out, r.record))
             ELSE [ok |-> TRUE, exc |-> "", output |-> out]

RECURSIVE parse_entries(_, _)
\* the loop over cleandata: the first exception ends it and output is lost
parse_entries(entries, out) ==
    IF entries = <<>> THEN [ok |-> TRUE, exc |-> "", output |-> out]
    ELSE LET r == parse_entry(Head(entries))
         IN  IF r.ok THEN parse_entries(Tail(entries), Append(out, r.record))
             ELSE [ok |-> FALSE, exc |-> r.exc, output |-> <<>>]

\* parse(data): the list returned, or the exception raised
parse(text) == parse_entries(clean_lines(text), <<>>)

\* def parse(data): the parameters of the jobs parser
parse_parameters == {"data"}

-----------------------------------------------------------------------------
(* cli.py: main()                                                          *)

Args(av) == {av[i] : i \in 1..Len(av)}

debug(av) == "-d" \in Args(av)
pretty(av) == "-p" \in Args(av)
quiet(av) == "-q" \in Args(av)
raw(av) == "-r" \in Args(av)

\* "for arg in sys.argv": the index of the first argument whose
\* parser_shortname is a key of parsers, or 0
first_parser_arg(av) ==
    LET hits == {i \in 1..Len(av) : parser_shortname(av[i]) \in parser_keys}
    IN  IF hits = {} THEN 0 ELSE CHOOSE i \in hits : \A j \in hits : i <= j

\* the keyword arguments of parser.parse(data, raw=raw, quiet=quiet)
call_keywords == {"raw", "quiet"}

\* the parse of a parser other than jobs: a record list, or a failure
other_parse(parser_name, text, raw_mode, quiet_mode) ==
    { [ok |-> TRUE, exc |-> "", output |-> <<>>],
      [ok |-> FALSE, exc |-> "Exception", output |-> <<>>] }

\* parser.parse(data, raw=raw, quiet=quiet): the outcomes of the call
call_parse(parser_name, text, raw_mode, quiet_mode) ==
    IF parser_name = "jobs"
    THEN IF call_keywords \subseteq parse_parameters
         THEN {parse(text)}
         ELSE {[ok |-> FALSE, exc |-> "TypeError", output |-> <<>>]}
    ELSE other_parse(parser_name, text, raw_mode, quiet_mode)

\* jc.utils.error_message(f'{parser_name} parser could not parse ...')
parse_error_message(parser_name) ==
    parser_name \o " parser could not parse the input data. Did you use the correct parser?\n         For details use the -d option."

ParseErrorOut(parser_name) ==
    [kind |-> "error_message", text |-> parse_error_message(parser_name), value |-> <<>>]

Idle == [ok |-> TRUE, exc |-> "", long |-> FALSE, record |-> <<>>]

-----------------------------------------------------------------------------
(* The invocations and the inputs checked                                  *)

\* the words the argument vectors are made of
ArgWords == {"-d", "-p", "-q", "-r", "-a", "--jobs", "--hosts", "-xls",
             "systemctl", "list-jobs", "pip3", "show", "frobnicate", "hosts"}

\* sys.argv: the program name and up to MaxArgs words
IsArgv(av) == \E n \in 0..MaxArgs : \E a \in [1..n -> ArgWords] : av = <<"jc">> \o a

ScenarioA == "[1]   Running     sleep 10000 &"
ScenarioB == "[4]-  14814 Running     sleep 10003 &"
ScenarioC == "[5]+  14815 Running     sleep 10004 &"

\* what standard input holds when the driver reads it
StdinInputs == {"", ScenarioA, ScenarioB \o "\n" \o ScenarioC \o "\n",
                "[x]  Done  ls", ScenarioA \o "\n[1x]+ 14 Done ls\n"}

\* first fields and the text after them: short and long lines, complete or
\* cut short, with one marker, two markers or none
JobFields == {"[1]", "[2]+", "[3]-", "[4]-+", "[x]", "[-6]"}
LineRests == {"  Done  ls &", " 14 Done ls &", " 2nd  fg %1", " Done",
              " 14 Stopped  vi a b  "}
BlankLines == {"", "  "}

Lines == {ScenarioA, ScenarioB, ScenarioC}
         \cup {f \o r : f \in JobFields, r \in LineRests}
         \cup BlankLines

\* the texts handed to parse: up to MaxLines lines
IsParseInput(text) ==
    \E n \in 0..MaxLines : \E ls \in [1..n -> Lines] : text = join("\n", ls)

-----------------------------------------------------------------------------
(* The driver: one invocation of jc                                        *)

Init ==
    /\ IsArgv(argv)
    /\ tty \in BOOLEAN
    /\ pc = "magic"
    /\ data = ""
    /\ stdin_read = FALSE
    /\ called = <<>>
    /\ result = <<>>
    /\ stdout = NoOut
    /\ stderr = NoOut
    /\ shell = None
    /\ status = -1
    /\ cleandata = <<>>
    /\ idx = 0
    /\ output = <<>>
    /\ last = Idle

parse_vars == <<cleandata, idx, output, last>>

\* sys.exit(code), exit() or an uncaught exception ends the process
Exit(code) == pc' = "exit" /\ status' = code

\* magic(): returns when the first argument is an option or absent; else runs
\* the command through the parser found, or prints the help text
magic ==
    /\ pc = "magic"
    /\ IF ~is_magic(argv)
       THEN /\ pc' = "main"
            /\ UNCHANGED <<status, stderr, shell>>
       ELSE LET found == find_parser(Tail(argv))
            IN  IF found.exc # ""
                THEN /\ stderr' = Traceback(found.exc)
                     /\ shell' = shell
                     /\ Exit(1)
                ELSE IF found.found_parser # None
                THEN /\ shell' = Some(whole_command(argv, found.found_parser))
                     /\ stderr' = stderr
                     /\ Exit(0)
                ELSE /\ stderr' = Usage(not_found_message(argv))
                     /\ shell' = shell
                     /\ Exit(1)
    /\ UNCHANGED <<argv, tty, data, stdin_read, called, result, stdout, parse_vars>>

\* main(), the options: -a prints about_jc(); a terminal as standard input
\* is "missing piped data"
main_options ==
    /\ pc = "main"
    /\ IF "-a" \in Args(argv)
       THEN /\ stdout' = [kind |-> "about",
                          text |-> IF pretty(argv) THEN "indent=2" ELSE "",
                          value |-> <<>>]
            /\ stderr' = stderr
            /\ Exit(0)
       ELSE IF tty
       THEN /\ stderr' = Usage("missing piped data")
            /\ stdout' = stdout
            /\ Exit(1)
       ELSE /\ pc' = "read"
            /\ UNCHANGED <<status, stdout, stderr>>
    /\ UNCHANGED <<argv, tty, data, stdin_read, called, result, shell, parse_vars>>

\* data = sys.stdin.read()
read_stdin ==
    /\ pc = "read"
    /\ \E text \in StdinInputs : data' = text
    /\ stdin_read' = TRUE
    /\ pc' = "dispatch"
    /\ UNCHANGED <<argv, tty, called, result, stdout, stderr, shell, status, parse_vars>>

\* main(), the loop over sys.argv: the first argument that names a parser
\* loads its module and calls its parse; without -d a failure of parse is
\* reported by error_message
dispatch ==
    /\ pc = "dispatch"
    /\ LET i == first_parser_arg(argv)
       IN  IF i = 0
           THEN /\ stderr' = Usage("missing or incorrect arguments")
                /\ UNCHANGED <<called, result>>
                /\ Exit(1)
           ELSE IF ~parser_module(argv[i])
           THEN /\ stderr' = Traceback("ModuleNotFoundError")
                /\ UNCHANGED <<called, result>>
                /\ Exit(1)
           ELSE LET parser_name == parser_shortname(argv[i])
                IN  /\ called' = Append(called, parser_name)
                    /\ \E r \in call_parse(parser_name, data, raw(argv), quiet(argv)) :
                          IF r.ok
                          THEN /\ result' = r.output
                               /\ pc' = "json_out"
                               /\ UNCHANGED <<stderr, status>>
                          ELSE /\ stderr' = IF debug(argv) THEN Traceback(r.exc)
                                            ELSE ParseErrorOut(parser_name)
                               /\ result' = result
                               /\ Exit(1)
    /\ UNCHANGED <<argv, tty, data, stdin_read, stdout, shell, parse_vars>>

\* json_out(result, pretty=pretty), and main() returns
json_out ==
    /\ pc = "json_out"
    /\ stdout' = [kind |-> "json",
                  text |-> IF pretty(argv) THEN "indent=2" ELSE "",
                  value |-> result]
    /\ Exit(0)
    /\ UNCHANGED <<argv, tty, data, stdin_read, called, result, stderr, shell, parse_vars>>

Next == magic \/ main_options \/ read_stdin \/ dispatch \/ json_out

Spec == Init /\ [][Next]_vars

-----------------------------------------------------------------------------
(* The jobs parser called on its own: parse(data)                          *)

InitParse ==
    /\ argv = <<"jc">>
    /\ tty = FALSE
    /\ pc = "parse"
    /\ IsParseInput(data)
    /\ stdin_read = FALSE
    /\ called = <<>>
    /\ result = <<>>
    /\ stdout = NoOut
    /\ stderr = NoOut
    /\ shell = None
    /\ status = -1
    /\ cleandata = <<>>
    /\ idx = 0
    /\ output = <<>>
    /\ last = Idle

driver_vars == <<argv, tty, data, stdin_read, called, stdout, stderr, shell, status>>

\* linedata = data.splitlines(); "Clear any blank lines"
parse_begin ==
    /\ pc = "parse"
    /\ cleandata' = clean_lines(data)
    /\ pc' = "for"
    /\ UNCHANGED <<driver_vars, result, idx, output, last>>

\* for entry in cleandata: ... output.append(output_line)
parse_loop ==
    /\ pc = "for"
    /\ idx < Len(cleandata)
    /\ idx' = idx + 1
    /\ last' = parse_entry(cleandata[idx + 1])
    /\ IF last'.ok
       THEN output' = Append(output, last'.record) /\ pc' = pc
       ELSE output' = output /\ pc' = "raised"
    /\ UNCHANGED <<driver_vars, result, cleandata>>

\* return output
parse_return ==
    /\ pc = "for"
    /\ idx = Len(cleandata)
    /\ result' = output
    /\ pc' = "returned"
    /\ UNCHANGED <<driver_vars, cleandata, idx, output, last>>

NextParse == parse_begin \/ parse_loop \/ parse_return

SpecParse == InitParse /\ [][NextParse]_vars

-----------------------------------------------------------------------------
(* Properties                                                              *)

\* the words of each descriptor's magic command, none without one
MagicWords ==
    [i \in 1..Len(parsers) |->
        IF parsers[i][2] = None THEN <<>> ELSE split(parsers[i][2][1], -1)]

\* the descriptors with a magic command whose first word is word
Candidates(word) ==
    {i \in 1..Len(parsers) : MagicWords[i] # <<>> /\ MagicWords[i][1] = word}

\* the candidates whose magic command has second as its second word
SecondWordMatches(word, second) ==
    {i \in Candidates(word) : Len(MagicWords[i]) >= 2 /\ MagicWords[i][2] = second}

\* the short names of the descriptors without a magic command
NoMagicNames == {parsers[i][1] : i \in {j \in 1..Len(parsers) : parsers[j][2] = None}}

\* "--" + shortName of every descriptor
InvocationFlags == {"--" \o k : k \in parser_keys}

\* the help text with the "parser not found" message for this command line,
\* exit status 1, nothing run and nothing printed
ResolutionError ==
    /\ stderr = Usage(not_found_message(argv))
    /\ status = 1
    /\ shell = None
    /\ stdout = NoOut

\* C1: a magic invocation of exactly one token that is the first word of
\* more than one magic command ends as a resolution error: usage text naming
\* the command line, exit status 1, no pipeline run and no record printed.
C1_LoneAmbiguousTokenIsResolutionError ==
    (pc = "exit" /\ is_magic(argv) /\ Len(argv) = 2
        /\ Cardinality(Candidates(argv[2])) > 1)
    => ResolutionError

\* C2: a magic invocation of two or more tokens whose first token is shared
\* by several magic commands and whose second token is the second word of
\* exactly one of them runs the pipeline with that descriptor's flag.
C2_SecondTokenSelectsDescriptor ==
    (pc = "exit" /\ is_magic(argv) /\ Len(argv) >= 3
        /\ Cardinality(Candidates(argv[2])) > 1
        /\ Cardinality(SecondWordMatches(argv[2], argv[3])) = 1)
    => LET i == CHOOSE j \in SecondWordMatches(argv[2], argv[3]) : TRUE
       IN  /\ shell = Some(whole_command(argv, Some(parsers[i][1])))
           /\ status = 0
           /\ stderr = NoOut

\* C5: a magic invocation whose first token starts no magic command is
\* terminal: it ends with the usage text and exit status 1, and on the way
\* standard input is never read, no parser is called, no pipeline is run and
\* nothing is printed, whatever flags follow the first token.
C5_UnknownCommandIsTerminal ==
    (is_magic(argv) /\ Candidates(argv[2]) = {})
    => /\ pc \in {"magic", "exit"}
       /\ ~stdin_read
       /\ called = <<>>
       /\ shell = None
       /\ stdout = NoOut
       /\ pc = "exit" => ResolutionError

C5_Witness ==
    /\ pc = "exit"
    /\ argv = <<"jc", "frobnicate", "--hosts">>
    /\ stderr.kind = "usage"
    /\ status = 1

\* C9: a descriptor without a magic command is never the one magic
\* resolution finds or runs, not even for a first token equal to its short
\* name; its parser is called only for its explicit flag.
C9_NoMagicNameNeverResolved ==
    /\ is_magic(argv) =>
          \A name \in NoMagicNames :
              /\ find_parser(Tail(argv)).found_parser # Some(name)
              /\ shell # Some(whole_command(argv, Some(name)))
    /\ \A i \in 1..Len(called) :
          called[i] \in NoMagicNames =>
              ~is_magic(argv) /\ ("--" \o called[i]) \in Args(argv)

C9_Witness ==
    /\ pc = "exit"
    /\ argv = <<"jc", "hosts">>
    /\ stderr = Usage(not_found_message(argv))
    /\ shell = None

\* the whitespace separated words of a line
Words(line) == split(line, -1)

\* a line with no character other than whitespace
IsBlank(line) == Words(line) = <<>>

\* a first field "[n]", "[n]+" or "[n]-" with decimal digits n
IsJobField(word) ==
    LET n == Len(word)
        marked == n > 0 /\ CharAt(word, n - 1) \in {"+", "-"}
        core == IF marked THEN Slice(word, 0, n - 1) ELSE word
    IN  /\ Len(core) >= 3
        /\ CharAt(core, 0) = "["
        /\ CharAt(core, Len(core) - 1) = "]"
        /\ AllDigits(Slice(core, 1, Len(core) - 1))

\* a line of the jobs listing: "[n]m status command" or, in the long
\* format, "[n]m pid status command"; a status does not begin with a digit
IsJobLine(line) ==
    LET w == Words(line)
    IN  /\ Len(w) >= 3
        /\ IsJobField(w[1])
        /\ IF AllDigits(w[2])
           THEN Len(w) >= 4 /\ find(digits, CharAt(w[3], 0)) = -1
           ELSE find(digits, CharAt(w[2], 0)) = -1

\* the lines of a text
TextLines(text) == splitlines(text)

\* the text has lines and each is a line of the jobs listing
IsJobListing(text) ==
    /\ TextLines(text) # <<>>
    /\ \A i \in 1..Len(TextLines(text)) : IsJobLine(TextLines(text)[i])

\* C3: for a well-formed jobs listing the call parse(data, raw, quiet) the
\* driver makes for "--jobs" returns the records, and the invocation prints
\* them as JSON and ends with exit status 0, not in a parse failure.
C3_JobsFlagPrintsRecords ==
    (pc = "exit" /\ stdin_read /\ called = <<"jobs">> /\ IsJobListing(data))
    => /\ status = 0
       /\ stderr = NoOut
       /\ stdout.kind = "json"
       /\ stdout.value = parse(data).output

\* the positions of the arguments that are the flag of a descriptor
FlagPositions == {i \in 1..Len(argv) : argv[i] \in InvocationFlags}

\* C4: once standard input is read, the parser called is that of the first
\* argument equal to a descriptor's flag and no other argument selects one;
\* at most one parse is called; with no such argument the invocation ends
\* with the help text and exit status 1 and calls no parser.
C4_FirstFlagSelectsParser ==
    (pc = "exit" /\ stdin_read)
    => /\ Len(called) <= 1
       /\ IF FlagPositions = {}
          THEN /\ called = <<>>
               /\ stderr = Usage("missing or incorrect arguments")
               /\ status = 1
          ELSE LET i == CHOOSE j \in FlagPositions : \A k \in FlagPositions : j <= k
               IN  called = <<SliceFrom(argv[i], 2)>>

\* the first word of a line with its trailing markers and its brackets
\* stripped
StrippedJobNumber(line) ==
    rstrip(lstrip(rstrip(rstrip(Words(line)[1], "+"), "-"), "["), "]")

\* some line of the text has words and a first word that is no integer once
\* stripped
HasBadJobNumber(text) ==
    \E i \in 1..Len(TextLines(text)) :
        /\ ~IsBlank(TextLines(text)[i])
        /\ ~IsIntLiteral(StrippedJobNumber(TextLines(text)[i]))

\* the inputs of the driver with such a line, and what parse makes of each
\* input
BadJobNumberInputs == {text \in StdinInputs : HasBadJobNumber(text)}
ParseOf == [text \in StdinInputs |-> parse(text)]

\* s ends with the text t
EndsWith(s, t) == Len(s) >= Len(t) /\ SliceFrom(s, Len(s) - Len(t)) = t

\* C7: when a line of the input has a job number that is no integer after
\* stripping, parse raises and returns no records, whatever lines came
\* before; the invocation for --jobs ends with exit status 1 and prints no
\* JSON: without -d a message that names the parser and points to -d, with
\* -d the uncaught exception.
C7_BadJobNumberIsFatal ==
    (stdin_read /\ data \in BadJobNumberInputs)
    => /\ ~ParseOf[data].ok
       /\ ParseOf[data].output = <<>>
       /\ called = <<"jobs">> =>
             /\ pc = "exit"
             /\ status = 1
             /\ stdout = NoOut
             /\ result = <<>>
             /\ IF debug(argv)
                THEN stderr.kind = "traceback" /\ stderr.text # ""
                ELSE /\ stderr.kind = "error_message"
                     /\ startswith(stderr.text, "jobs parser")
                     /\ EndsWith(stderr.text, "use the -d option.")

C7_Witness ==
    /\ pc = "exit"
    /\ data = ScenarioA \o "\n[1x]+ 14 Done ls\n"
    /\ data \in BadJobNumberInputs
    /\ ParseOf[ScenarioA].ok
    /\ called = <<"jobs">>
    /\ ~debug(argv)
    /\ stderr.kind = "error_message"
    /\ status = 1

\* the keys of a record in their order
Keys(record) == [j \in 1..Len(record) |-> record[j][1]]

\* the value a record holds for a key it has
Value(record, key) ==
    record[CHOOSE j \in 1..Len(record) : record[j][1] = key][2]

RECURSIVE DigitsOf(_, _)
\* the decimal digits among the characters of word from index i on
DigitsOf(word, i) ==
    IF i >= Len(word) THEN ""
    ELSE (IF find(digits, CharAt(word, i)) # -1 THEN CharAt(word, i) ELSE "")
         \o DigitsOf(word, i + 1)

\* the integer written between the brackets of a first field: its digits,
\* negative when a minus sign comes before them
BracketedInteger(word) ==
    LET ds == DigitsOf(word, 0)
        first == find(word, CharAt(ds, 0))
        minus == find(word, "-")
        value == DecimalValue(ds, Len(ds))
    IN  IF minus # -1 /\ minus < first THEN 0 - value ELSE value

\* text is what the line holds after its first n words: the line ends with
\* it, it begins with a word, and the n words and whitespace come before it
IsRestAfterWords(line, n, text) ==
    \E k \in 1..Len(line) :
        /\ text = SliceFrom(line, k)
        /\ ~IsSpace(CharAt(line, k))
        /\ IsSpace(CharAt(line, k - 1))
        /\ Len(Words(Slice(line, 0, k))) = n

\* the record is the one specified for the line: job_number, pid, history,
\* status, command in this order, pid only for a numeric second word and
\* history only for a marked first word
IsRecordOf(line, record) ==
    LET w == Words(line)
        long_format == AllDigits(w[2])
        plus == find(w[1], "+") # -1
        minus == find(w[1], "-") # -1
        n == IF long_format THEN 3 ELSE 2
    IN  /\ Keys(record) = <<"job_number">>
                          \o (IF long_format THEN <<"pid">> ELSE <<>>)
                          \o (IF plus \/ minus THEN <<"history">> ELSE <<>>)
                          \o <<"status", "command">>
        /\ Value(record, "job_number") = BracketedInteger(w[1])
        /\ long_format => Value(record, "pid") = DecimalValue(w[2], Len(w[2]))
        /\ (plus \/ minus) => Value(record, "history") \in {"current", "previous"}
        /\ (plus /\ ~minus) => Value(record, "history") = "current"
        /\ (minus /\ ~plus) => Value(record, "history") = "previous"
        /\ Value(record, "status") = w[n]
        /\ IsRestAfterWords(line, n, Value(record, "command"))

RecordA ==
    << <<"job_number", 1>>, <<"status", "Running">>,
       <<"command", "sleep 10000 &">> >>
RecordB ==
    << <<"job_number", 4>>, <<"pid", 14814>>, <<"history", "previous">>,
       <<"status", "Running">>, <<"command", "sleep 10003 &">> >>
RecordC ==
    << <<"job_number", 5>>, <<"pid", 14815>>, <<"history", "current">>,
       <<"status", "Running">>, <<"command", "sleep 10004 &">> >>

\* C6: the record of every line that parses has the fields job_number, pid,
\* history, status, command in this order; job_number is the integer in the
\* brackets, status the word after the job number (and pid), command the
\* rest of the line as written; pid is there exactly for a numeric second
\* word, with its value; history exactly for a marked first word, current
\* for + and previous for -. Scenarios A, B and C give the records stated.
C6_RecordFieldsAndOrder ==
    /\ \A i \in 1..Len(output) : IsRecordOf(cleandata[i], output[i])
    /\ (pc = "returned" /\ data = ScenarioA) => result = <<RecordA>>
    /\ (pc = "returned" /\ data = ScenarioB) => result = <<RecordB>>
    /\ (pc = "returned" /\ data = ScenarioC) => result = <<RecordC>>
    /\ (pc = "raised") => data \notin {ScenarioA, ScenarioB, ScenarioC}

C6_Witness ==
    /\ pc = "returned"
    /\ data = ScenarioB \o "\n" \o "[2]+  Done  ls &"
    /\ Len(result) = 2
    /\ Keys(result[1]) = <<"job_number", "pid", "history", "status", "command">>
    /\ Keys(result[2]) = <<"job_number", "history", "status", "command">>

RECURSIVE RecordsOfLines(_)
\* the records of the non-blank lines, each parsed alone, in line order
RecordsOfLines(lines) ==
    IF lines = <<>> THEN <<>>
    ELSE (IF IsBlank(Head(lines)) THEN <<>> ELSE parse(Head(lines)).output)
         \o RecordsOfLines(Tail(lines))

\* C8: for job lines interleaved with blank lines (lines without a
\* non-whitespace character) parse drops the blank lines without error and
\* returns one record per other line, in line order, each the record of
\* that line parsed alone.
C8_BlankLinesDroppedLinesIndependent ==
    (pc \in {"returned", "raised"}
        /\ (\E n \in 1..Len(TextLines(data)) : IsJobLine(TextLines(data)[n]))
        /\ \A i \in 1..Len(TextLines(data)) :
              IsBlank(TextLines(data)[i]) \/ IsJobLine(TextLines(data)[i]))
    => /\ pc = "returned"
       /\ result = RecordsOfLines(TextLines(data))

\* C10: the long format is detected for a line exactly when its second word
\* is numeric; then the first word is the job number, the second the pid and
\* the rest gives status and command. A line whose second word is not
\* numeric is parsed in the short format: the second word is its status and
\* it has no pid.
C10_LongFormatIffSecondWordNumeric ==
    (idx > 0 /\ Len(Words(cleandata[idx])) >= 2)
    => LET line == cleandata[idx]
           w == Words(line)
       IN  /\ last.long <=> AllDigits(w[2])
           /\ (~AllDigits(w[2]) /\ Len(w) >= 3 /\ IsJobField(w[1]))
                 => /\ last.ok
                    /\ Keys(last.record) \in
                          {<<"job_number", "status", "command">>,
                           <<"job_number", "history", "status", "command">>}
                    /\ Value(last.record, "status") = w[2]
           /\ (AllDigits(w[2]) /\ last.ok)
                 => /\ Value(last.record, "pid") = DecimalValue(w[2], Len(w[2]))
                    /\ Value(last.record, "status") = w[3]
                    /\ IsRestAfterWords(line, 3, Value(last.record, "command"))

====
